---- MODULE Spec2Model ----
(***************************************************************************)
(* Scroll-synchronised trajectory engine of the trip viewer                *)
(* (src/components/TripViewer.tsx) and the waypoint ordering it shares     *)
(* with the trip editor (src/components/TripEditor.tsx).                   *)
(*                                                                         *)
(* Numbers.  JavaScript numbers are modelled as exact rationals <<n, d>>   *)
(* in lowest terms with d > 0; <<0, 0>> is NaN.  Pixel quantities are      *)
(* integers.  Date.getTime() is kept in minutes (none of the date strings  *)
(* of the model carries seconds), so that it fits TLC's integers.          *)
(*                                                                         *)
(* Strings.  A string is the sequence of its characters, so that parsing   *)
(* and collation are computed from the text.                               *)
(***************************************************************************)
EXTENDS Integers, Sequences, FiniteSets, TLC

\* ------------------------------------------------------------------------
\* bounds of the model
\* ------------------------------------------------------------------------
MaxPoints == 3

\* longest stored point list the ordering is exercised with
MaxSortPoints == 4

\* ------------------------------------------------------------------------
\* rational arithmetic (JavaScript numbers)
\* ------------------------------------------------------------------------
NaN == <<0, 0>>

Abs(x) == IF x < 0 THEN -x ELSE x

RECURSIVE Gcd(_, _)
Gcd(a, b) == IF b = 0 THEN a ELSE Gcd(b, a % b)

\* n / d in lowest terms; 0/0 is NaN
Rat(n, d) ==
    IF d = 0 THEN NaN
    ELSE LET g == Gcd(Abs(n), Abs(d))
             s == IF d < 0 THEN -1 ELSE 1
         IN  <<(s * n) \div g, (s * d) \div g>>

IsNaN(q) == q[2] = 0

RatOfInt(n) == <<n, 1>>

RatAdd(p, q) == IF IsNaN(p) \/ IsNaN(q) THEN NaN
                ELSE Rat(p[1] * q[2] + q[1] * p[2], p[2] * q[2])

RatMul(p, q) == IF IsNaN(p) \/ IsNaN(q) THEN NaN
                ELSE Rat(p[1] * q[1], p[2] * q[2])

RatSub(p, q) == RatAdd(p, RatMul(RatOfInt(-1), q))

\* comparisons with NaN are false, as in JavaScript
RatLt(p, q) == ~IsNaN(p) /\ ~IsNaN(q) /\ p[1] * q[2] < q[1] * p[2]

RatLe(p, q) == ~IsNaN(p) /\ ~IsNaN(q) /\ p[1] * q[2] <= q[1] * p[2]

\* ------------------------------------------------------------------------
\* strings, String.prototype.localeCompare
\* ------------------------------------------------------------------------
Digits == <<"0", "1", "2", "3", "4", "5", "6", "7", "8", "9">>

\* primary collation order of the characters the model uses (CLDR root:
\* punctuation, symbols, digits, letters)
Collation == <<"-", ":",
               "0", "1", "2", "3", "4", "5", "6", "7", "8", "9",
               "a", "b", "c", "d", "e", "f", "i", "n", "t", "u", "x", "z">>

ToLower(c) == IF c = "T" THEN "t" ELSE IF c = "Z" THEN "z" ELSE c

IsUpper(c) == c \in {"T", "Z"}

CharRanks ==
    [c \in {Collation[i] : i \in 1..Len(Collation)} |->
        CHOOSE i \in 1..Len(Collation) : Collation[i] = c]

CharRank(c) == CharRanks[ToLower(c)]

RECURSIVE PrimaryCompare(_, _)
PrimaryCompare(s, t) ==
    IF s = <<>> /\ t = <<>> THEN 0
    ELSE IF s = <<>> THEN -1
    ELSE IF t = <<>> THEN 1
    ELSE IF CharRank(s[1]) < CharRank(t[1]) THEN -1
    ELSE IF CharRank(s[1]) > CharRank(t[1]) THEN 1
    ELSE PrimaryCompare(Tail(s), Tail(t))

\* strings equal at the primary level: lower case sorts before upper case
RECURSIVE CaseCompare(_, _)
CaseCompare(s, t) ==
    IF s = <<>> \/ t = <<>> THEN 0
    ELSE IF ~IsUpper(s[1]) /\ IsUpper(t[1]) THEN -1
    ELSE IF IsUpper(s[1]) /\ ~IsUpper(t[1]) THEN 1
    ELSE CaseCompare(Tail(s), Tail(t))

localeCompare(s, t) ==
    LET p == PrimaryCompare(s, t)
    IN  IF p # 0 THEN p ELSE CaseCompare(s, t)

\* ------------------------------------------------------------------------
\* new Date(string).getTime(), in minutes since 1970-01-01T00:00Z
\* ------------------------------------------------------------------------
\* the value of a missing property
Undefined == <<"undefined">>

\* String(undefined), what localeCompare compares with for a missing argument
UndefinedText == <<"u", "n", "d", "e", "f", "i", "n", "e", "d">>

DigitVals == [c \in {Digits[i] : i \in 1..10} |->
                 (CHOOSE i \in 1..10 : Digits[i] = c) - 1]

DigitVal(c) == DigitVals[c]

IsDigit(c) == c \in DOMAIN DigitVals

AllDigits(s, from, to) == \A i \in from..to : IsDigit(s[i])

RECURSIVE NumVal(_, _, _)
NumVal(s, from, to) ==
    IF from > to THEN 0
    ELSE NumVal(s, from, to - 1) * 10 + DigitVal(s[to])

\* days from 1970-01-01 to the civil date y-m-d (proleptic Gregorian)
DaysFromCivil(y, m, d) ==
    LET a   == IF m <= 2 THEN y - 1 ELSE y
        mp  == (m + 9) % 12
        doy == (153 * mp + 2) \div 5 + d - 1
    IN  365 * a + a \div 4 - a \div 100 + a \div 400 + doy - 719468

\* "YYYY-MM-DD"
IsDatePart(s) ==
    /\ Len(s) >= 10
    /\ AllDigits(s, 1, 4) /\ s[5] = "-" /\ AllDigits(s, 6, 7)
    /\ s[8] = "-" /\ AllDigits(s, 9, 10)
    /\ NumVal(s, 6, 7) \in 1..12
    /\ NumVal(s, 9, 10) \in 1..31

\* "THH:mm" at position 11
IsTimePart(s) ==
    /\ Len(s) >= 16
    /\ s[11] = "T" /\ AllDigits(s, 12, 13) /\ s[14] = ":"
    /\ AllDigits(s, 15, 16)
    /\ NumVal(s, 12, 13) \in 0..23
    /\ NumVal(s, 15, 16) \in 0..59

\* The ECMAScript date-time string format, forms "YYYY-MM-DD",
\* "YYYY-MM-DDTHH:mm" and "YYYY-MM-DDTHH:mmZ": a date-only form is UTC, a
\* date-time form without offset is local time (localOffset = minutes east
\* of UTC).  Everything else, and a missing value, is NaN.
DateGetTime(s, localOffset) ==
    IF s = Undefined \/ ~IsDatePart(s) THEN NaN
    ELSE LET days == DaysFromCivil(NumVal(s, 1, 4), NumVal(s, 6, 7),
                                   NumVal(s, 9, 10))
             hm   == NumVal(s, 12, 13) * 60 + NumVal(s, 15, 16)
         IN  IF Len(s) = 10 THEN RatOfInt(days * 1440)
             ELSE IF ~IsTimePart(s) THEN NaN
             ELSE IF Len(s) = 16
                  THEN RatOfInt(days * 1440 + hm - localOffset)
             ELSE IF Len(s) = 17 /\ s[17] = "Z"
                  THEN RatOfInt(days * 1440 + hm)
             ELSE NaN

\* ------------------------------------------------------------------------
\* program constants
\* ------------------------------------------------------------------------
\* SCROLL_HEIGHT_MULTIPLIER = 1.2, as the fraction 6/5
SCROLL_HEIGHT_MULTIPLIER == <<6, 5>>

\* default of generateCurvePath's segments parameter, and the literal in
\* Math.floor(sectionProgress * 50)
CurveSamples == 50

\* curvature passed to getControlPoint by pathSegments (0.25)
Curvature == <<1, 4>>

\* the maps SDK is loaded by the page before the bundle runs
KakaoLoaded == TRUE

\* ------------------------------------------------------------------------
\* curve helper functions
\* ------------------------------------------------------------------------
LatLng(lat, lng) == [lat |-> lat, lng |-> lng]

Lcm(a, b) == (a * b) \div Gcd(a, b)

\* the Bezier sum with the weights of the two end points exchanged
BezierAxisSwapped(t, c0, c1, c2) ==
    IF IsNaN(t) \/ IsNaN(c0) \/ IsNaN(c1) \/ IsNaN(c2) THEN NaN
    ELSE LET n == t[1]
             d == t[2]
             l == Lcm(c0[2], Lcm(c1[2], c2[2]))
             a0 == c0[1] * (l \div c0[2])
             a1 == c1[1] * (l \div c1[2])
             a2 == c2[1] * (l \div c2[2])
         IN  Rat(n * n * a0 + 2 * (d - n) * n * a1 + (d - n) * (d - n) * a2,
                 d * d * l)

\* (1-t)(1-t) c0 + 2 (1-t) t c1 + t t c2 for one coordinate axis, over the
\* common denominator of t and the three coordinates
BezierAxis(t, c0, c1, c2) ==
    IF IsNaN(t) \/ IsNaN(c0) \/ IsNaN(c1) \/ IsNaN(c2) THEN NaN
    ELSE LET n == t[1]
             d == t[2]
             l == Lcm(c0[2], Lcm(c1[2], c2[2]))
             a0 == c0[1] * (l \div c0[2])
             a1 == c1[1] * (l \div c1[2])
             a2 == c2[1] * (l \div c2[2])
         IN  Rat((d - n) * (d - n) * a0 + 2 * (d - n) * n * a1 + n * n * a2,
                 d * d * l)

getQuadraticBezierPoint(t, p0, p1, p2) ==
    LET x == BezierAxis(t, p0.lng, p1.lng, p2.lng)
        y == BezierAxis(t, p0.lat, p1.lat, p2.lat)
    IN  LatLng(y, x)

getControlPoint(start, end, curvature, direction) ==
    LET half      == <<1, 2>>
        midLat    == RatMul(RatAdd(start.lat, end.lat), half)
        midLng    == RatMul(RatAdd(start.lng, end.lng), half)
        dLat      == RatSub(end.lat, start.lat)
        dLng      == RatSub(end.lng, start.lng)
        normalLat == RatMul(RatOfInt(-1), dLng)
        normalLng == dLat
        controlLat == RatAdd(midLat, RatMul(RatMul(normalLat, curvature),
                                            RatOfInt(direction)))
        controlLng == RatAdd(midLng, RatMul(RatMul(normalLng, curvature),
                                            RatOfInt(direction)))
    IN  LatLng(controlLat, controlLng)

\* for (i = 0; i <= segments; i++) t = i / segments
generateCurvePath(start, end, control, segments) ==
    [k \in 1..(segments + 1) |->
        getQuadraticBezierPoint(Rat(k - 1, segments), start, control, end)]

\* A polyline path is kept as the sequence of generateCurvePath calls whose
\* results were concatenated to make it; PathPoints gives its points.
CurveCall(start, end, control, segments) ==
    [start |-> start, end |-> end, control |-> control,
     segments |-> segments]

CurvePoints(c) == generateCurvePath(c.start, c.end, c.control, c.segments)

RECURSIVE PathPoints(_)
PathPoints(path) ==
    IF path = <<>> THEN <<>>
    ELSE CurvePoints(path[1]) \o PathPoints(Tail(path))

\* segs.flatMap(seg => seg.curvePath)
FlatMapCurves(segs) == [k \in 1..Len(segs) |-> segs[k].curvePath]

\* every segment curved to the same side
SegmentDirectionSameSide(i) == 1

SegmentDirection(i) == IF i % 2 = 0 THEN 1 ELSE -1

\* the pathSegments memo; i is the 0-based loop index
\* each segment carrying its arrival waypoint
BuildPathSegmentsArrivalData(sorted) ==
    IF ~KakaoLoaded \/ Len(sorted) < 2 THEN <<>>
    ELSE [k \in 1..(Len(sorted) - 1) |->
            LET i       == k - 1
                start   == LatLng(RatOfInt(sorted[k].lat),
                                  RatOfInt(sorted[k].lng))
                end     == LatLng(RatOfInt(sorted[k + 1].lat),
                                  RatOfInt(sorted[k + 1].lng))
                control == getControlPoint(start, end, Curvature,
                                           SegmentDirection(i))
            IN  [start     |-> start,
                 end       |-> end,
                 control   |-> control,
                 curvePath |-> CurveCall(start, end, control, CurveSamples),
                 data      |-> sorted[k + 1]]]

BuildPathSegments(sorted) ==
    IF ~KakaoLoaded \/ Len(sorted) < 2 THEN <<>>
    ELSE [k \in 1..(Len(sorted) - 1) |->
            LET i       == k - 1
                start   == LatLng(RatOfInt(sorted[k].lat),
                                  RatOfInt(sorted[k].lng))
                end     == LatLng(RatOfInt(sorted[k + 1].lat),
                                  RatOfInt(sorted[k + 1].lng))
                control == getControlPoint(start, end, Curvature,
                                           SegmentDirection(i))
            IN  [start     |-> start,
                 end       |-> end,
                 control   |-> control,
                 curvePath |-> CurveCall(start, end, control, CurveSamples),
                 data      |-> sorted[k]]]

getTransportIcon(type) ==
    CASE type = "PLANE" -> "plane"
      [] type = "TRAIN" -> "train"
      [] type = "SHIP"  -> "ship"
      [] type = "WALK"  -> "walk"
      [] type = "BUS"   -> "bus"
      [] OTHER          -> "car"

\* ------------------------------------------------------------------------
\* state
\* ------------------------------------------------------------------------
VARIABLES
    tz,                 \* local time zone of the browser, minutes east of UTC
    phase,              \* "list" | "mounted" | "crashed" | "closed"
    trip,               \* the trip prop: the points as stored
    committed,          \* the viewer's first render has been committed
    sortedPoints,       \* useMemo: the points in canonical order
    pathSegments,       \* useMemo: the curve segments
    fullBackgroundPath, \* useMemo: all curve samples
    map,                \* useState: id of the map instance, 0 = null
    transportOverlay,   \* useState: id of the vehicle overlay, 0 = null
    traveledPolyline,   \* useState: id of the red polyline, 0 = null
    mapType,            \* useState: "ROADMAP" | "HYBRID"
    rendered,           \* the state values the last committed render saw
    listener,           \* closures of the attached scroll listeners
    callbacks,          \* pending relayout timers, connected resize observers
    scrollTop,          \* scroll offset of the container, pixels
    objects,            \* the map objects created so far, by id
    cards,              \* inline style of each waypoint card
    sample,             \* locals of the last handleScroll call
    story,              \* the StoryMap component: props, state, scroll offset
    editor              \* the TripEditor component, the clock, the saved trip

vars == <<tz, phase, trip, committed, sortedPoints, pathSegments,
          fullBackgroundPath, map, transportOverlay, traveledPolyline,
          mapType, rendered, listener, callbacks, scrollTop, objects, cards,
          sample, story, editor>>

\* what the TripViewer never touches
outsideViewer == <<story, editor>>

\* the TripViewer's own state
viewerVars == <<trip, committed, sortedPoints, pathSegments,
                fullBackgroundPath, map, transportOverlay, traveledPolyline,
                mapType, rendered, listener, callbacks, scrollTop, objects,
                cards, sample>>

\* ------------------------------------------------------------------------
\* robustSort (TripViewer.tsx and TripEditor.tsx hold the same comparator)
\* ------------------------------------------------------------------------
\* the text localeCompare sees for its argument
ArgText(s) == IF s = Undefined THEN UndefinedText ELSE s

\* a.date.localeCompare(...) on a missing date is a TypeError
robustSortThrows(a, b) == a.date = Undefined

robustSort(a, b) ==
    LET Compare(timeA, timeB) ==
            IF ~IsNaN(timeA) /\ ~IsNaN(timeB) /\ timeA # timeB
            THEN timeA[1] - timeB[1]
            ELSE LET strComp == localeCompare(a.date, ArgText(b.date))
                 IN  IF strComp # 0 THEN strComp
                     ELSE localeCompare(a.id, b.id)
    IN  Compare(DateGetTime(a.date, tz), DateGetTime(b.date, tz))

\* ------------------------------------------------------------------------
\* Array.prototype.sort(robustSort) as the engine runs it on short arrays:
\* find the initial run, reverse it when descending, then binary insertion.
\* A throwing comparison aborts the sort.
\* ------------------------------------------------------------------------
Reverse(s) == [i \in 1..Len(s) |-> s[Len(s) + 1 - i]]

\* length of the initial run, scanning from index idx
RECURSIVE RunScan(_, _, _)
RunScan(arr, idx, desc) ==
    IF idx > Len(arr) THEN [threw |-> FALSE, len |-> idx - 1]
    ELSE IF robustSortThrows(arr[idx], arr[idx - 1])
         THEN [threw |-> TRUE, len |-> idx - 1]
    ELSE LET order == robustSort(arr[idx], arr[idx - 1])
         IN  IF (desc /\ order >= 0) \/ (~desc /\ order < 0)
             THEN [threw |-> FALSE, len |-> idx - 1]
             ELSE RunScan(arr, idx + 1, desc)

\* position in arr[left+1 .. right] (0-based bounds) where pivot goes
RECURSIVE BinarySearch(_, _, _, _)
BinarySearch(arr, pivot, left, right) ==
    IF left >= right THEN [threw |-> FALSE, pos |-> left]
    ELSE LET mid == left + (right - left) \div 2
         IN  IF robustSortThrows(pivot, arr[mid + 1])
             THEN [threw |-> TRUE, pos |-> left]
             ELSE IF robustSort(pivot, arr[mid + 1]) < 0
                  THEN BinarySearch(arr, pivot, left, mid)
                  ELSE BinarySearch(arr, pivot, mid + 1, right)

InsertAt(arr, from, pos) ==
    [i \in 1..Len(arr) |->
        IF i <= pos THEN arr[i]
        ELSE IF i = pos + 1 THEN arr[from]
        ELSE IF i <= from THEN arr[i - 1]
        ELSE arr[i]]

\* insert arr[start+1 ..] one by one into the sorted prefix arr[1 .. start]
RECURSIVE BinaryInsertionSort(_, _)
BinaryInsertionSort(arr, start) ==
    IF start >= Len(arr) THEN [threw |-> FALSE, arr |-> arr]
    ELSE LET r == BinarySearch(arr, arr[start + 1], 0, start)
         IN  IF r.threw THEN [threw |-> TRUE, arr |-> arr]
             ELSE BinaryInsertionSort(InsertAt(arr, start + 1, r.pos),
                                      start + 1)

ArraySort(arr) ==
    IF Len(arr) < 2 THEN [threw |-> FALSE, arr |-> arr]
    ELSE IF robustSortThrows(arr[2], arr[1])
         THEN [threw |-> TRUE, arr |-> arr]
    ELSE LET desc == robustSort(arr[2], arr[1]) < 0
             run  == RunScan(arr, 3, desc)
             head == SubSeq(arr, 1, run.len)
             rest == SubSeq(arr, run.len + 1, Len(arr))
             made == (IF desc THEN Reverse(head) ELSE head) \o rest
         IN  IF run.threw THEN [threw |-> TRUE, arr |-> arr]
             ELSE BinaryInsertionSort(made, run.len)

\* ------------------------------------------------------------------------
\* TripViewer: scroll handler
\* ------------------------------------------------------------------------
\* window.innerHeight, pixels
ViewportHeight == 10

\* how far one scroll event moves the offset
ScrollDeltas == {-ViewportHeight, -1, 1, ViewportHeight}

Min(a, b) == IF a < b THEN a ELSE b

Max(a, b) == IF a > b THEN a ELSE b

\* the scroll container holds the hero section (one viewport), one section
\* of SCROLL_HEIGHT_MULTIPLIER viewports per point and the outro (at least
\* one viewport); its scrollTop ranges over 0 .. content - viewport
MaxScrollTop(n) ==
    (n * ViewportHeight * SCROLL_HEIGHT_MULTIPLIER[1])
        \div SCROLL_HEIGHT_MULTIPLIER[2] + ViewportHeight

\* the early return not taken
NoSampleRan == [ran |-> TRUE, branch |-> "none", currentSectionIndex |-> 0,
                sectionProgress |-> <<0, 1>>, safeIndex |-> 0,
                localProgress |-> <<>>]

NoSample == [ran |-> FALSE, branch |-> "none", currentSectionIndex |-> 0,
             sectionProgress |-> <<0, 1>>, safeIndex |-> 0,
             localProgress |-> <<>>]

\* the cards rendered opaque
InitialCardShown == [opacity |-> <<1, 1>>, translateY |-> <<0, 1>>,
                     scale |-> <<1, 1>>, visibility |-> "visible"]

InitialCard == [opacity |-> <<0, 1>>, translateY |-> <<0, 1>>,
                scale |-> <<1, 1>>, visibility |-> "visible"]

\* the enter ramp taken over 0.20 instead of 0.10
CardStyleSlowEnter(localProgress) ==
    LET one == <<1, 1>>
        enterOpacity == RatMul(localProgress, <<5, 1>>)
        exitProgress == RatMul(RatSub(localProgress, <<17, 20>>), <<20, 3>>)
        opacity    == IF RatLt(localProgress, <<1, 10>>) THEN enterOpacity
                      ELSE IF RatLt(localProgress, <<17, 20>>) THEN one
                      ELSE RatSub(one, exitProgress)
        translateY == IF RatLt(localProgress, <<1, 10>>)
                      THEN RatMul(<<30, 1>>, RatSub(one, enterOpacity))
                      ELSE IF RatLt(localProgress, <<17, 20>>) THEN <<0, 1>>
                      ELSE RatMul(<<-80, 1>>, exitProgress)
        scale      == IF RatLt(localProgress, <<1, 10>>)
                      THEN RatAdd(<<19, 20>>, RatMul(<<1, 20>>, enterOpacity))
                      ELSE IF RatLt(localProgress, <<17, 20>>) THEN one
                      ELSE RatSub(one, RatMul(<<1, 20>>, exitProgress))
    IN  [opacity    |-> opacity,
         translateY |-> translateY,
         scale      |-> scale,
         visibility |-> IF RatLe(opacity, <<1, 100>>) THEN "hidden"
                        ELSE "visible"]

\* the card animation for one card's local progress
CardStyle(localProgress) ==
    LET one == <<1, 1>>
        enterOpacity == RatMul(localProgress, <<10, 1>>)
        exitProgress == RatMul(RatSub(localProgress, <<17, 20>>), <<20, 3>>)
        opacity    == IF RatLt(localProgress, <<1, 10>>) THEN enterOpacity
                      ELSE IF RatLt(localProgress, <<17, 20>>) THEN one
                      ELSE RatSub(one, exitProgress)
        translateY == IF RatLt(localProgress, <<1, 10>>)
                      THEN RatMul(<<30, 1>>, RatSub(one, enterOpacity))
                      ELSE IF RatLt(localProgress, <<17, 20>>) THEN <<0, 1>>
                      ELSE RatMul(<<-80, 1>>, exitProgress)
        scale      == IF RatLt(localProgress, <<1, 10>>)
                      THEN RatAdd(<<19, 20>>, RatMul(<<1, 20>>, enterOpacity))
                      ELSE IF RatLt(localProgress, <<17, 20>>) THEN one
                      ELSE RatSub(one, RatMul(<<1, 20>>, exitProgress))
    IN  [opacity    |-> opacity,
         translateY |-> translateY,
         scale      |-> scale,
         visibility |-> IF RatLe(opacity, <<1, 100>>) THEN "hidden"
                        ELSE "visible"]

\* a passed card reset to 0
CardLocalProgressPassedZero(idx, currentSectionIndex, sectionProgress) ==
    IF currentSectionIndex = idx THEN sectionProgress ELSE <<0, 1>>

\* local progress of card idx (0-based)
CardLocalProgress(idx, currentSectionIndex, sectionProgress) ==
    IF currentSectionIndex = idx THEN sectionProgress
    ELSE IF currentSectionIndex > idx THEN <<1, 1>>
    ELSE <<0, 1>>

\* const sectionHeight = vh * SCROLL_HEIGHT_MULTIPLIER
SectionHeight(vh) == RatMul(RatOfInt(vh), SCROLL_HEIGHT_MULTIPLIER)

\* the lead-in not subtracted
RelativeScrollNoLeadIn(top, scrollStart) ==
    IF RatLt(top, <<0, 1>>) THEN <<0, 1>> ELSE top

\* Math.max(0, scrollTop - scrollStart)
RelativeScroll(top, scrollStart) ==
    LET diff == RatSub(top, scrollStart)
    IN  IF RatLt(diff, <<0, 1>>) THEN <<0, 1>> ELSE diff

\* Math.floor(relativeScroll / sectionHeight)
CurrentSectionIndex(relativeScroll, sectionHeight) ==
    (relativeScroll[1] * sectionHeight[2])
        \div (relativeScroll[2] * sectionHeight[1])

\* the remainder not taken
SectionProgressNoModulo(relativeScroll, sectionHeight) ==
    Rat(relativeScroll[1] * sectionHeight[2],
        relativeScroll[2] * sectionHeight[1])

\* (relativeScroll % sectionHeight) / sectionHeight
SectionProgress(relativeScroll, sectionHeight) ==
    Rat((relativeScroll[1] * sectionHeight[2])
            % (relativeScroll[2] * sectionHeight[1]),
        relativeScroll[2] * sectionHeight[1])

\* Math.min(currentSectionIndex, pathSegments.length - 1)
SafeIndex(currentSectionIndex, segmentCount) ==
    Min(currentSectionIndex, segmentCount - 1)

\* handleScroll with the values its closure cl captured, at offset top;
\* yields the map objects, the card styles and the handler's locals
handleScroll(cl, top, objs, cds) ==
    IF cl.map = 0 \/ cl.transportOverlay = 0 \/ cl.traveledPolyline = 0
       \/ Len(cl.pathSegments) = 0
    THEN [objects |-> objs, cards |-> cds, sample |-> NoSample]
    ELSE
    LET vh      == ViewportHeight
        scrollStart == RatOfInt(vh)
        sectionHeight == SectionHeight(vh)
        relativeScroll == RelativeScroll(RatOfInt(top), scrollStart)
        currentSectionIndex ==
            CurrentSectionIndex(relativeScroll, sectionHeight)
        sectionProgress == SectionProgress(relativeScroll, sectionHeight)
        safeIndex == SafeIndex(currentSectionIndex, Len(cl.pathSegments))
        inSegment == safeIndex >= 0 /\ safeIndex < Len(cl.pathSegments)
        atEnd     == ~inSegment
                     /\ currentSectionIndex >= Len(cl.pathSegments)
        segment   == cl.pathSegments[safeIndex + 1]
        currentPos == getQuadraticBezierPoint(sectionProgress, segment.start,
                                              segment.control, segment.end)
        historyPath == FlatMapCurves(SubSeq(cl.pathSegments, 1, safeIndex))
        partialSamples == (sectionProgress[1] * CurveSamples)
                              \div sectionProgress[2]
        currentPartialPath == CurveCall(segment.start, segment.end,
                                        segment.control, partialSamples)
        lastPoint == cl.sortedPoints[Len(cl.sortedPoints)]
        lastPos   == LatLng(RatOfInt(lastPoint.lat), RatOfInt(lastPoint.lng))
        newObjs ==
            IF inSegment THEN
                [objs EXCEPT
                    ![cl.transportOverlay].vehiclePos = currentPos,
                    ![cl.transportOverlay].vehicleIcon =
                        getTransportIcon(segment.data.transportToNext),
                    ![cl.map].center = currentPos,
                    ![cl.traveledPolyline].traveledPath =
                        historyPath \o <<currentPartialPath>>]
            ELSE IF atEnd THEN
                [objs EXCEPT
                    ![cl.transportOverlay].vehiclePos = lastPos,
                    ![cl.traveledPolyline].traveledPath =
                        cl.fullBackgroundPath]
            ELSE objs
        newCards ==
            [k \in 1..Len(cds) |->
                IF k <= Len(cl.sortedPoints)
                THEN CardStyle(CardLocalProgress(k - 1, currentSectionIndex,
                                                 sectionProgress))
                ELSE cds[k]]
    IN  [objects |-> newObjs,
         cards   |-> newCards,
         sample  |-> [ran |-> TRUE,
                      branch |-> IF inSegment THEN "segment"
                                 ELSE IF atEnd THEN "end" ELSE "none",
                      currentSectionIndex |-> currentSectionIndex,
                      sectionProgress |-> sectionProgress,
                      safeIndex |-> safeIndex,
                      localProgress |->
                          [k \in 1..Len(cl.sortedPoints) |->
                              CardLocalProgress(k - 1, currentSectionIndex,
                                                sectionProgress)]]]

\* ------------------------------------------------------------------------
\* TripViewer: render, effects, events
\* ------------------------------------------------------------------------
StateNow == [map |-> map, transportOverlay |-> transportOverlay,
             traveledPolyline |-> traveledPolyline, mapType |-> mapType]

NoState == [map |-> 0, transportOverlay |-> 0, traveledPolyline |-> 0,
            mapType |-> "HYBRID"]

\* the handler reading the segment list of the render before
ClosureStaleSegments(st, segs, full, sorted) ==
    [map |-> st.map, transportOverlay |-> st.transportOverlay,
     traveledPolyline |-> st.traveledPolyline, pathSegments |-> pathSegments,
     fullBackgroundPath |-> full, sortedPoints |-> sorted]

Closure(st, segs, full, sorted) ==
    [map |-> st.map, transportOverlay |-> st.transportOverlay,
     traveledPolyline |-> st.traveledPolyline, pathSegments |-> segs,
     fullBackgroundPath |-> full, sortedPoints |-> sorted]

\* effect 1: what new kakao.maps.Map and the overlays built on it hold
NewMapObject(sorted, full, type) ==
    LET startPos == LatLng(RatOfInt(sorted[1].lat), RatOfInt(sorted[1].lng))
    IN  [mapTypeId      |-> type,
         center         |-> startPos,
         backgroundPath |-> full,
         traveledPath   |-> <<>>,
         markers        |-> [k \in 1..Len(sorted) |->
                                LatLng(RatOfInt(sorted[k].lat),
                                       RatOfInt(sorted[k].lng))],
         vehiclePos     |-> startPos,
         vehicleIcon    |-> getTransportIcon(sorted[1].transportToNext)]

\* nothing pending: no timer, no observer, no callback has run
NoCallbacks == [timers |-> <<>>, observers |-> <<>>, ran |-> "none",
                afterTeardown |-> FALSE]

\* effect 1 on a non-empty route: new ResizeObserver(...).observe(...) and
\* setTimeout(..., 500) for the map with this id
WithMapCallbacks(cb, id, startPos) ==
    [cb EXCEPT !.observers = Append(@, id),
               !.timers = Append(@, [map |-> id, startPos |-> startPos])]

\* effect 1's cleanup: resizeObserver.disconnect() of the observer of map id
Disconnected(cb, id) ==
    [cb EXCEPT !.observers = SelectSeq(@, LAMBDA m : m # id)]

\* container.removeEventListener('scroll', handleScroll)
RemoveListener(ls, cl) == SelectSeq(ls, LAMBDA l : l # cl)

\* the scroll event dispatched to the attached listeners in turn
RECURSIVE RunListeners(_, _, _)
RunListeners(ls, top, r) ==
    IF ls = <<>> THEN r
    ELSE RunListeners(Tail(ls), top,
                      handleScroll(Head(ls), top, r.objects, r.cards))

\* App opens the viewer on one of the stored trips
Open(trips) ==
    /\ phase = "list"
    /\ phase' = "mounted"
    /\ trip' \in trips
    /\ UNCHANGED <<tz, committed, sortedPoints, pathSegments,
                   fullBackgroundPath, map, transportOverlay,
                   traveledPolyline, mapType, rendered, listener, callbacks,
                   scrollTop, objects, cards, sample, outsideViewer>>

\* first render and commit: the memos, then effects 1, 1.5 and 2
FirstRender ==
    /\ phase = "mounted" /\ ~committed
    /\ \E sorted \in {ArraySort(trip)} :
       IF sorted.threw
       THEN /\ phase' = "crashed"
            /\ UNCHANGED <<committed, sortedPoints, pathSegments,
                           fullBackgroundPath, map, transportOverlay,
                           traveledPolyline, rendered, listener, callbacks,
                           objects, cards, sample>>
       ELSE \E segs \in {BuildPathSegments(sorted.arr)} :
            LET full == FlatMapCurves(segs)
                id   == Len(objects) + 1
                cl   == Closure(StateNow, segs, full, sorted.arr)
                cds  == [k \in 1..Len(sorted.arr) |-> InitialCard]
            IN  \E r \in {handleScroll(cl, scrollTop, objects, cds)} :
                /\ phase' = phase
                /\ committed' = TRUE
                /\ sortedPoints' = sorted.arr
                /\ pathSegments' = segs
                /\ fullBackgroundPath' = full
                /\ rendered' = StateNow
                /\ listener' = Append(listener, cl)
                /\ cards' = r.cards
                /\ sample' = r.sample
                /\ IF Len(sorted.arr) = 0
                   THEN /\ objects' = r.objects
                        /\ UNCHANGED <<map, transportOverlay,
                                       traveledPolyline, callbacks>>
                   ELSE /\ objects' = Append(r.objects,
                                NewMapObject(sorted.arr, full, mapType))
                        /\ callbacks' = WithMapCallbacks(callbacks, id,
                               LatLng(RatOfInt(sorted.arr[1].lat),
                                      RatOfInt(sorted.arr[1].lng)))
                        /\ map' = id
                        /\ transportOverlay' = id
                        /\ traveledPolyline' = id
    /\ UNCHANGED <<tz, trip, mapType, scrollTop, outsideViewer>>

\* a re-render after a state update: effect 1.5 when map or mapType changed,
\* effect 2 (listener replaced, handleScroll called) when map, overlay or
\* polyline changed
ReRender ==
    /\ phase = "mounted" /\ committed /\ rendered # StateNow
    /\ LET mapChanged == rendered.map # map
           typeChanged == rendered.mapType # mapType
           scrollDeps == \/ rendered.map # map
                         \/ rendered.transportOverlay # transportOverlay
                         \/ rendered.traveledPolyline # traveledPolyline
           typed == IF map # 0 /\ KakaoLoaded /\ (mapChanged \/ typeChanged)
                    THEN [objects EXCEPT ![map].mapTypeId = mapType]
                    ELSE objects
           cl    == Closure(StateNow, pathSegments, fullBackgroundPath,
                            sortedPoints)
       IN  IF scrollDeps
           THEN \E r \in {handleScroll(cl, scrollTop, typed, cards)} :
                /\ listener' = Append(RemoveListener(listener,
                                  Closure(rendered, pathSegments,
                                          fullBackgroundPath, sortedPoints)),
                                     cl)
                /\ objects' = r.objects
                /\ cards' = r.cards
                /\ sample' = r.sample
           ELSE /\ objects' = typed
                /\ UNCHANGED <<listener, cards, sample>>
    /\ rendered' = StateNow
    /\ UNCHANGED <<tz, phase, trip, committed, sortedPoints, pathSegments,
                   fullBackgroundPath, map, transportOverlay,
                   traveledPolyline, mapType, callbacks, scrollTop,
                   outsideViewer>>

\* the user scrolls the container to offset top; the attached listener runs
Scroll(top) ==
    /\ phase = "mounted" /\ committed
    /\ top \in 0..MaxScrollTop(Len(sortedPoints))
    /\ top # scrollTop
    /\ scrollTop' = top
    /\ \E r \in {RunListeners(listener, top,
                             [objects |-> objects, cards |-> cards,
                              sample |-> sample])} :
                /\ objects' = r.objects
                /\ cards' = r.cards
                /\ sample' = r.sample
    /\ UNCHANGED <<tz, phase, trip, committed, sortedPoints, pathSegments,
                   fullBackgroundPath, map, transportOverlay,
                   traveledPolyline, mapType, rendered, listener, callbacks,
                   outsideViewer>>

\* the toggle rendering the cards anew
toggleMapTypeResetsCards ==
    /\ phase = "mounted" /\ committed
    /\ mapType' = IF mapType = "ROADMAP" THEN "HYBRID" ELSE "ROADMAP"
    /\ cards' = [k \in 1..Len(cards) |-> InitialCard]
    /\ UNCHANGED <<tz, phase, trip, committed, sortedPoints, pathSegments,
                   fullBackgroundPath, map, transportOverlay,
                   traveledPolyline, rendered, listener, callbacks,
                   scrollTop, objects, sample, outsideViewer>>

toggleMapType ==
    /\ phase = "mounted" /\ committed
    /\ mapType' = IF mapType = "ROADMAP" THEN "HYBRID" ELSE "ROADMAP"
    /\ UNCHANGED <<tz, phase, trip, committed, sortedPoints, pathSegments,
                   fullBackgroundPath, map, transportOverlay,
                   traveledPolyline, rendered, listener, callbacks,
                   scrollTop, objects, cards, sample, outsideViewer>>

\* most map instances one viewer creates
MaxMaps == 2

\* the card nodes after a render of sorted: a node is kept with its key
KeptCards(oldSorted, oldCards, sorted) ==
    [k \in 1..Len(sorted) |->
        IF \E j \in 1..Len(oldSorted) :
               j <= Len(oldCards) /\ oldSorted[j].id = sorted[k].id
        THEN oldCards[CHOOSE j \in 1..Len(oldSorted) :
                          j <= Len(oldCards) /\ oldSorted[j].id = sorted[k].id]
        ELSE InitialCard]

\* the parent passes another trip: the render recomputes the memos, the
\* cleanups of effects 1 and 2 run, then effects 1, 1.5 and 2
TripChange(trips) ==
    /\ phase = "mounted" /\ committed
    /\ Len(objects) < MaxMaps
    /\ \E t \in trips \ {trip} :
       /\ trip' = t
       /\ \E sorted \in {ArraySort(t)} :
          IF sorted.threw
          THEN /\ phase' = "crashed"
               /\ listener' = RemoveListener(listener,
                                  Closure(rendered, pathSegments,
                                          fullBackgroundPath, sortedPoints))
               /\ callbacks' = Disconnected(callbacks, map)
               /\ UNCHANGED <<committed, sortedPoints, pathSegments,
                              fullBackgroundPath, map, transportOverlay,
                              traveledPolyline, rendered, scrollTop, objects,
                              cards, sample>>
          ELSE \E segs \in {BuildPathSegments(sorted.arr)} :
               LET full == FlatMapCurves(segs)
                   id   == Len(objects) + 1
                   top  == Min(scrollTop, MaxScrollTop(Len(sorted.arr)))
                   typed ==
                       IF map # 0 /\ KakaoLoaded
                          /\ (rendered.map # map
                              \/ rendered.mapType # mapType)
                       THEN [objects EXCEPT ![map].mapTypeId = mapType]
                       ELSE objects
                   built ==
                       IF Len(sorted.arr) = 0 THEN typed
                       ELSE Append(typed,
                                   NewMapObject(sorted.arr, full, mapType))
                   cl   == Closure(StateNow, segs, full, sorted.arr)
                   cds  == KeptCards(sortedPoints, cards, sorted.arr)
               IN  \E r \in {handleScroll(cl, top, built, cds)} :
                   /\ phase' = phase
                   /\ committed' = committed
                   /\ sortedPoints' = sorted.arr
                   /\ pathSegments' = segs
                   /\ fullBackgroundPath' = full
                   /\ rendered' = StateNow
                   /\ scrollTop' = top
                   /\ listener' = Append(RemoveListener(listener,
                                     Closure(rendered, pathSegments,
                                             fullBackgroundPath,
                                             sortedPoints)),
                                        cl)
                   /\ objects' = r.objects
                   /\ cards' = r.cards
                   /\ sample' = r.sample
                   /\ IF Len(sorted.arr) = 0
                      THEN /\ callbacks' = Disconnected(callbacks, map)
                           /\ UNCHANGED <<map, transportOverlay,
                                          traveledPolyline>>
                      ELSE /\ callbacks' =
                                 WithMapCallbacks(
                                     Disconnected(callbacks, map), id,
                                     LatLng(RatOfInt(sorted.arr[1].lat),
                                            RatOfInt(sorted.arr[1].lng)))
                           /\ map' = id
                           /\ transportOverlay' = id
                           /\ traveledPolyline' = id
    /\ UNCHANGED <<tz, mapType, outsideViewer>>

\* the 500 ms timer of effect 1 expires: newMap.relayout() and
\* newMap.setCenter(startPos) on the map the effect created
relayoutTimer ==
    /\ callbacks.timers # <<>>
    /\ LET timer == Head(callbacks.timers)
       IN  /\ callbacks' = [callbacks EXCEPT
                               !.timers = Tail(@),
                               !.ran = "timer",
                               !.afterTeardown = @ \/ phase # "mounted"]
           /\ objects' = IF timer.map \in DOMAIN objects
                         THEN [objects EXCEPT
                                  ![timer.map].center = timer.startPos]
                         ELSE objects
    /\ UNCHANGED <<tz, phase, trip, committed, sortedPoints, pathSegments,
                   fullBackgroundPath, map, transportOverlay,
                   traveledPolyline, mapType, rendered, listener, scrollTop,
                   cards, sample, outsideViewer>>

\* a connected resize observer reports: newMap.relayout() and
\* newMap.setCenter(newMap.getCenter())
resizeObserved ==
    /\ callbacks.observers # <<>>
    /\ callbacks.ran # "resize"
    /\ callbacks' = [callbacks EXCEPT
                        !.ran = "resize",
                        !.afterTeardown = @ \/ phase # "mounted"]
    /\ UNCHANGED <<tz, phase, trip, committed, sortedPoints, pathSegments,
                   fullBackgroundPath, map, transportOverlay,
                   traveledPolyline, mapType, rendered, listener, scrollTop,
                   objects, cards, sample, outsideViewer>>

\* onClose: App unmounts the viewer; effect 1's cleanup disconnects the
\* resize observer, effect 2's cleanup removes the listener it attached; the
\* component's state, memos and card nodes are discarded
Close ==
    /\ phase = "mounted" /\ committed
    /\ phase' = "closed"
    /\ listener' = RemoveListener(listener,
                       Closure(rendered, pathSegments, fullBackgroundPath,
                               sortedPoints))
    /\ callbacks' = Disconnected(callbacks, map)
    /\ committed' = FALSE
    /\ sortedPoints' = <<>>
    /\ pathSegments' = <<>>
    /\ fullBackgroundPath' = <<>>
    /\ map' = 0
    /\ transportOverlay' = 0
    /\ traveledPolyline' = 0
    /\ mapType' = "HYBRID"
    /\ rendered' = NoState
    /\ scrollTop' = 0
    /\ objects' = <<>>
    /\ cards' = <<>>
    /\ sample' = NoSample
    /\ UNCHANGED <<tz, trip, outsideViewer>>

\* ------------------------------------------------------------------------
\* inputs: date strings, stored points, trips
\* ------------------------------------------------------------------------
\* "2024-01-01T10:00"
DateLocalA ==
    <<"2", "0", "2", "4", "-", "0", "1", "-", "0", "1", "T", "1", "0", ":",
      "0", "0">>

\* "2024-01-02T05:00"
DateLocalB ==
    <<"2", "0", "2", "4", "-", "0", "1", "-", "0", "2", "T", "0", "5", ":",
      "0", "0">>

\* "2024-01-03T08:30"
DateLocalC ==
    <<"2", "0", "2", "4", "-", "0", "1", "-", "0", "3", "T", "0", "8", ":",
      "3", "0">>

\* "2024-01-02"
DateOnly ==
    <<"2", "0", "2", "4", "-", "0", "1", "-", "0", "2">>

\* "2024-01-02T00:00Z"
DateUtc ==
    <<"2", "0", "2", "4", "-", "0", "1", "-", "0", "2", "T", "0", "0", ":",
      "0", "0", "Z">>

\* "2024-01-02a"
DateGarbage ==
    <<"2", "0", "2", "4", "-", "0", "1", "-", "0", "2", "a">>

\* the date strings the ordering is exercised with: the editor's own format
\* (datetime-local), a date-only form, the same instant written with a time
\* and Z, an unparseable string, and a missing date
DateValues == {DateLocalA, DateLocalB, DateOnly, DateUtc, DateGarbage,
               Undefined}

TimeZones == {0, 540}

IdPool == <<(<<"a">>), (<<"b">>), (<<"c">>), (<<"d">>)>>

Ids == {IdPool[k] : k \in 1..Len(IdPool)}

Point(id, date, lat, lng, transport) ==
    [id |-> id, date |-> date, lat |-> lat, lng |-> lng,
     transportToNext |-> transport]

InjectiveSeqs(S, n) ==
    {q \in [1..n -> S] : \A i, j \in 1..n : i # j => q[i] # q[j]}

\* stored point lists for the ordering: every choice of date per id, in
\* every storage order
SortPoints == {Point(id, d, 0, 0, "CAR") : id \in Ids, d \in DateValues}

SortTrips ==
    UNION {{q \in [1..n -> SortPoints] :
               \A i, j \in 1..n : i # j => q[i].id # q[j].id} :
           n \in 0..MaxSortPoints}

\* stored points for the viewer: two of them share a date string
ViewPoints == {Point(IdPool[1], DateLocalA, 0, 0, "CAR"),
               Point(IdPool[2], DateLocalB, 4, 8, "TRAIN"),
               Point(IdPool[3], DateLocalA, -4, 12, "WALK"),
               Point(IdPool[4], DateLocalC, 8, 4, "PLANE")}

ViewTrips == UNION {InjectiveSeqs(ViewPoints, n) : n \in 0..MaxPoints}

\* ------------------------------------------------------------------------
\* StoryMap (StoryMap.tsx holds successive versions of the component:
\* variant 1 is the magazine layout, variant 2 the one with a heading)
\* ------------------------------------------------------------------------
StoryVariants == {1, 2}

\* heights of the blocks of the scroll container, pixels: the space before
\* the first card, one card (its minimum height, the content fitting in),
\* the block after the last card
IntroHeight(variant) ==
    IF variant = 1 THEN Rat(ViewportHeight, 2) ELSE Rat(2 * ViewportHeight, 5)

StoryCardHeight(variant) ==
    IF variant = 1 THEN RatOfInt(ViewportHeight)
    ELSE Rat(17 * ViewportHeight, 20)

OutroHeight(variant) ==
    IF variant = 1 THEN RatOfInt(ViewportHeight)
    ELSE Rat(2 * ViewportHeight, 5)

Floor(q) == q[1] \div q[2]

\* Math.round: the nearest integer, halves upwards
Round(q) == (2 * q[1] + q[2]) \div (2 * q[2])

\* Math.atan2(dx, dy) in degrees, kept as the direction it is the angle of;
\* atan2(0, 0) is 0, the angle of the direction (0, 1)
Atan2(dx, dy) ==
    IF dx = 0 /\ dy = 0 THEN <<0, 1>>
    ELSE <<dx \div Gcd(Abs(dx), Abs(dy)), dy \div Gcd(Abs(dx), Abs(dy))>>

\* scrollTop ranges over 0 .. content height - viewport height
MaxStoryScrollTop(variant, n) ==
    Floor(RatSub(RatAdd(RatAdd(IntroHeight(variant), OutroHeight(variant)),
                        RatMul(RatOfInt(n), StoryCardHeight(variant))),
                 RatOfInt(ViewportHeight)))

\* card.getBoundingClientRect().top of card i (0-based) at offset top
CardRectTop(variant, i, top) ==
    RatSub(RatAdd(IntroHeight(variant),
                  RatMul(RatOfInt(i), StoryCardHeight(variant))),
           RatOfInt(top))

\* rect.top + rect.height / 2
CardCenter(variant, i, top) ==
    RatAdd(CardRectTop(variant, i, top),
           RatMul(StoryCardHeight(variant), <<1, 2>>))

\* [...stops].sort((a, b) => a.order - b.order), a stable sort
RECURSIVE SortByOrder(_)
SortByOrder(stops) ==
    IF Len(stops) <= 1 THEN stops
    ELSE LET rest == SortByOrder(Tail(stops))
             before == {k \in 1..Len(rest) : rest[k].order < Head(stops).order}
         IN  SubSeq(rest, 1, Cardinality(before)) \o <<Head(stops)>>
                 \o SubSeq(rest, Cardinality(before) + 1, Len(rest))

StopPos(stop) == <<RatOfInt(stop.coordinates.lat),
                   RatOfInt(stop.coordinates.lng)>>

NoStorySample == [ran |-> FALSE, branch |-> "none", progress |-> <<0, 1>>]

\* no StoryMap mounted; the values are those of useState
NoStory == [variant |-> 1, stops |-> <<>>, committed |-> FALSE,
            sortedStops |-> <<>>, activeStopIndex |-> 0,
            vehiclePos |-> <<>>, vehicleRotation |-> <<0, 1>>,
            activeTransportMode |-> "FLIGHT", simulatedSpeed |-> 0,
            attached |-> FALSE, scrollTop |-> 0, sample |-> NoStorySample]

\* the state handleScroll leaves when the view centre lies between the
\* centres of cards i and i + 1, at the given progress
storyInSegment(st, i, progress) ==
    LET start == StopPos(st.sortedStops[i + 1])
        end   == StopPos(st.sortedStops[i + 2])
        dy    == end[1][1] - start[1][1]
        dx    == end[2][1] - start[2][1]
    IN  [st EXCEPT
            !.activeStopIndex = i,
            !.vehiclePos =
                <<RatAdd(start[1], RatMul(RatOfInt(dy), progress)),
                  RatAdd(start[2], RatMul(RatOfInt(dx), progress))>>,
            !.vehicleRotation = IF st.variant = 2 THEN Atan2(dx, dy) ELSE @,
            !.simulatedSpeed =
                IF st.variant = 1
                THEN Round(RatAdd(RatMul(progress, <<120, 1>>), <<20, 1>>))
                ELSE Round(RatMul(progress, <<100, 1>>)),
            !.activeTransportMode = st.sortedStops[i + 2].transportMode,
            !.sample = [ran |-> TRUE, branch |-> "segment",
                        progress |-> progress]]

\* (viewCenter - currentCenter) / totalDistance
storyProgress(viewCenter, currentCenter, nextCenter) ==
    LET totalDistance == RatSub(nextCenter, currentCenter)
    IN  RatMul(RatSub(viewCenter, currentCenter),
               <<totalDistance[2], totalDistance[1]>>)

\* the speed of a vehicle entering a segment left at the last stop
storyAtExtremeMoving(st, top, viewCenter) ==
    LET lastIdx == Len(st.sortedStops) - 1
        lastReached ==
            IF st.variant = 1
            THEN RatLe(CardRectTop(st.variant, lastIdx, top), viewCenter)
            ELSE RatLe(CardCenter(st.variant, lastIdx, top), viewCenter)
        firstAhead == RatLt(viewCenter, CardRectTop(st.variant, 0, top))
    IN  IF lastReached
        THEN [st EXCEPT
                 !.activeStopIndex = lastIdx,
                 !.vehiclePos = StopPos(st.sortedStops[lastIdx + 1]),
                 !.simulatedSpeed = 20,
                 !.sample = [ran |-> TRUE, branch |-> "last",
                             progress |-> <<0, 1>>]]
        ELSE IF firstAhead
        THEN [st EXCEPT
                 !.activeStopIndex = 0,
                 !.vehiclePos = StopPos(st.sortedStops[1]),
                 !.simulatedSpeed = 0,
                 !.sample = [ran |-> TRUE, branch |-> "first",
                             progress |-> <<0, 1>>]]
        ELSE [st EXCEPT !.sample = [ran |-> TRUE, branch |-> "none",
                                    progress |-> <<0, 1>>]]

\* the state handleScroll leaves when no pair of cards holds the view centre
storyAtExtreme(st, top, viewCenter) ==
    LET lastIdx == Len(st.sortedStops) - 1
        lastReached ==
            IF st.variant = 1
            THEN RatLe(CardRectTop(st.variant, lastIdx, top), viewCenter)
            ELSE RatLe(CardCenter(st.variant, lastIdx, top), viewCenter)
        firstAhead == RatLt(viewCenter, CardRectTop(st.variant, 0, top))
    IN  IF lastReached
        THEN [st EXCEPT
                 !.activeStopIndex = lastIdx,
                 !.vehiclePos = StopPos(st.sortedStops[lastIdx + 1]),
                 !.simulatedSpeed = 0,
                 !.sample = [ran |-> TRUE, branch |-> "last",
                             progress |-> <<0, 1>>]]
        ELSE IF firstAhead
        THEN [st EXCEPT
                 !.activeStopIndex = 0,
                 !.vehiclePos = StopPos(st.sortedStops[1]),
                 !.simulatedSpeed = 0,
                 !.sample = [ran |-> TRUE, branch |-> "first",
                             progress |-> <<0, 1>>]]
        ELSE [st EXCEPT !.sample = [ran |-> TRUE, branch |-> "none",
                                    progress |-> <<0, 1>>]]

\* the loop over the cards from card i on: the first pair of neighbouring
\* cards whose centres hold the view centre is the active one
RECURSIVE storyFindActive(_, _, _, _)
storyFindActive(st, top, viewCenter, i) ==
    IF i >= Len(st.sortedStops) - 1 THEN storyAtExtreme(st, top, viewCenter)
    ELSE IF /\ RatLe(CardCenter(st.variant, i, top), viewCenter)
            /\ RatLt(viewCenter, CardCenter(st.variant, i + 1, top))
         THEN storyInSegment(st, i,
                  storyProgress(viewCenter, CardCenter(st.variant, i, top),
                                CardCenter(st.variant, i + 1, top)))
         ELSE storyFindActive(st, top, viewCenter, i + 1)

\* handleScroll of the StoryMap (st) at offset top
storyHandleScroll(st, top) ==
    IF Len(st.sortedStops) = 0 THEN [st EXCEPT !.sample = NoStorySample]
    ELSE storyFindActive(st, top, Rat(ViewportHeight, 2), 0)

\* App loads the stops of a trip and shows the StoryMap
OpenStory(stopLists) ==
    /\ phase = "list"
    /\ phase' = "story"
    /\ \E v \in StoryVariants :
       \E stops \in stopLists :
           story' = [NoStory EXCEPT !.variant = v, !.stops = stops]
    /\ UNCHANGED <<tz, viewerVars, editor>>

\* first render and commit of the StoryMap: the memo, the effect placing the
\* vehicle on the first stop, the scroll effect (listener, handleScroll)
storyFirstRender ==
    /\ phase = "story" /\ ~story.committed
    /\ LET sorted == SortByOrder(story.stops)
           placed == IF Len(sorted) > 0
                     THEN [story EXCEPT
                              !.committed = TRUE,
                              !.sortedStops = sorted,
                              !.vehiclePos = StopPos(sorted[1]),
                              !.activeTransportMode = sorted[1].transportMode]
                     ELSE [story EXCEPT !.committed = TRUE,
                                        !.sortedStops = sorted]
       IN  story' = IF Len(sorted) > 0
                    THEN [storyHandleScroll(placed, placed.scrollTop)
                             EXCEPT !.attached = TRUE]
                    ELSE placed
    /\ UNCHANGED <<tz, phase, viewerVars, editor>>

\* the user scrolls the StoryMap's container to offset top
storyScroll(top) ==
    /\ phase = "story" /\ story.committed /\ story.attached
    /\ top \in 0..MaxStoryScrollTop(story.variant, Len(story.sortedStops))
    /\ top # story.scrollTop
    /\ story' = storyHandleScroll([story EXCEPT !.scrollTop = top], top)
    /\ UNCHANGED <<tz, phase, viewerVars, editor>>

\* the parent passes other stops: the render recomputes the memo and looks
\* up sortedStops[activeStopIndex] with the state of the renders before,
\* then the placement effect and the scroll effect run again
storyStopsChange(stopLists) ==
    /\ phase = "story" /\ story.committed
    /\ \E stops \in stopLists \ {story.stops} :
       \E sorted \in {SortByOrder(stops)} :
          IF Len(sorted) = 0
          THEN /\ phase' = phase
               /\ story' = [story EXCEPT !.stops = stops,
                                         !.sortedStops = sorted,
                                         !.attached = FALSE,
                                         !.scrollTop = 0,
                                         !.sample = NoStorySample]
          ELSE IF story.variant = 2 /\ story.activeStopIndex >= Len(sorted)
          THEN /\ phase' = "crashed"
               /\ story' = [story EXCEPT !.stops = stops,
                                         !.sortedStops = sorted,
                                         !.attached = FALSE]
          ELSE LET top == Min(story.scrollTop,
                              MaxStoryScrollTop(story.variant, Len(sorted)))
                   placed ==
                       IF story.variant = 1 \/ story.vehiclePos = <<>>
                       THEN [story EXCEPT
                                !.stops = stops,
                                !.sortedStops = sorted,
                                !.scrollTop = top,
                                !.vehiclePos = StopPos(sorted[1]),
                                !.activeTransportMode =
                                    sorted[1].transportMode]
                       ELSE [story EXCEPT !.stops = stops,
                                          !.sortedStops = sorted,
                                          !.scrollTop = top]
               IN  /\ phase' = phase
                   /\ story' = [storyHandleScroll(placed, top)
                                   EXCEPT !.attached = TRUE]
    /\ UNCHANGED <<tz, viewerVars, editor>>

\* onBack: App returns to the dashboard, the StoryMap is unmounted
storyBack ==
    /\ phase = "story" /\ story.committed
    /\ phase' = "closed"
    /\ story' = NoStory
    /\ UNCHANGED <<tz, viewerVars, editor>>

\* stops as stored: where the stop is, how the traveller arrived there
Stop(id, lat, lng, mode, order) ==
    [id |-> id, coordinates |-> [lat |-> lat, lng |-> lng],
     transportMode |-> mode, order |-> order]

StoryStops == {Stop(IdPool[1], 0, 0, "FLIGHT", 0),
               Stop(IdPool[2], 4, 8, "TRAIN", 1),
               Stop(IdPool[3], -4, 12, "WALK", 2),
               Stop(IdPool[4], 8, 4, "SHIP", 3)}

StoryTrips == UNION {InjectiveSeqs(StoryStops, n) : n \in 0..MaxPoints}

\* ------------------------------------------------------------------------
\* TripEditor
\* ------------------------------------------------------------------------
\* most points one trip is given in the editor
MaxEditorPoints == 2

\* the last value of Date.now(), milliseconds
MaxClock == 2

\* Number.prototype.toString of a non-negative integer
RECURSIVE NumberToString(_)
NumberToString(n) ==
    IF n < 10 THEN <<Digits[n + 1]>>
    ELSE Append(NumberToString(n \div 10), Digits[(n % 10) + 1])

\* the empty string of a cleared input
EmptyString == <<>>

\* what the user can put in the form: a date of the datetime-local input, a
\* position picked on the map
FormValues ==
    {[date |-> DateLocalA, lat |-> 0, lng |-> 0],
     [date |-> DateLocalB, lat |-> 4, lng |-> 8]}

\* clearForm leaves the position alone
ClearedForm(form) == [form EXCEPT !.date = EmptyString]

InitialForm == [date |-> EmptyString, lat |-> 0, lng |-> 0]

NoUpload == [active |-> FALSE, points |-> <<>>, editingPointId |-> <<>>,
             form |-> InitialForm]

\* no TripEditor mounted; clock is what Date.now() returns, stored the trip
\* document the last save wrote
NoEditor == [points |-> <<>>, editingPointId |-> <<>>, form |-> InitialForm,
             isUploadingPoint |-> FALSE, upload |-> NoUpload,
             polylines |-> <<>>, clock |-> 1, stored |-> <<>>]

\* how many of the polylines put on the editor's map are kept track of: the
\* most recent ones
MaxPolylines == 2

\* sorted.map(p => new kakao.maps.LatLng(p.lat, p.lng))
LinePath(sorted) ==
    [k \in 1..Len(sorted) |-> LatLng(sorted[k].lat, sorted[k].lng)]

\* updatePolyline(map, tripPoints) run by the effect on [points, map]: with
\* two points or more a new polyline along the sorted points is put on the
\* map; polylines is what the map carries
updatePolyline(polylines, tripPoints) ==
    IF Len(tripPoints) < 2 THEN polylines
    ELSE Append(IF Len(polylines) < MaxPolylines THEN polylines
                ELSE Tail(polylines),
                LinePath(ArraySort(tripPoints).arr))

ReorderKeep(points) == points

\* updatedPoints.map((p, idx) => ({ ...p, order: idx }))
Reorder(points) == [k \in 1..Len(points) |-> [points[k] EXCEPT !.order = k - 1]]

\* points.filter(pt => pt.id !== id)
WithoutId(points, id) == SelectSeq(points, LAMBDA pt : pt.id # id)

\* the point list after the add or update that was started with the captured
\* points, editingPointId and form, Date.now() returning now
AddOrUpdate(points, editingPointId, form, now) ==
    LET pointData == [lat |-> form.lat, lng |-> form.lng, date |-> form.date,
                      transportToNext |-> "CAR"]
        updatedPoints ==
            IF editingPointId # <<>>
            THEN [k \in 1..Len(points) |->
                     IF points[k].id = editingPointId
                     THEN [points[k] EXCEPT !.lat = pointData.lat,
                                            !.lng = pointData.lng,
                                            !.date = pointData.date,
                                            !.transportToNext =
                                                pointData.transportToNext]
                     ELSE points[k]]
            ELSE Append(points,
                        [id |-> NumberToString(now), order |-> 0,
                         lat |-> pointData.lat, lng |-> pointData.lng,
                         date |-> pointData.date,
                         transportToNext |-> pointData.transportToNext])
    IN  Reorder(ArraySort(updatedPoints).arr)

\* App opens the editor on a new trip
OpenCreate ==
    /\ phase = "list"
    /\ phase' = "editor"
    /\ editor' = [NoEditor EXCEPT !.clock = editor.clock,
                                  !.stored = editor.stored]
    /\ UNCHANGED <<tz, viewerVars, story>>

\* App opens the editor on the saved trip: the effect sorts initialData.points
OpenEdit ==
    /\ phase = "list"
    /\ Len(editor.stored) > 0
    /\ phase' = "editor"
    /\ \E sorted \in {ArraySort(editor.stored).arr} :
          editor' = [NoEditor EXCEPT
                        !.clock = editor.clock,
                        !.stored = editor.stored,
                        !.points = sorted,
                        !.polylines = updatePolyline(<<>>, sorted)]
    /\ UNCHANGED <<tz, viewerVars, story>>

\* time passes
Tick ==
    /\ phase = "editor"
    /\ editor.clock < MaxClock
    /\ editor' = [editor EXCEPT !.clock = @ + 1]
    /\ UNCHANGED <<tz, phase, viewerVars, story>>

\* the user fills in the form
FillForm ==
    /\ phase = "editor"
    /\ \E f \in FormValues :
          /\ f # editor.form
          /\ editor' = [editor EXCEPT !.form = f]
    /\ UNCHANGED <<tz, phase, viewerVars, story>>

\* the user picks a point of the list for editing
handleEditPoint ==
    /\ phase = "editor"
    /\ \E k \in 1..Len(editor.points) :
          /\ editor.editingPointId # editor.points[k].id
          /\ editor' = [editor EXCEPT
                            !.editingPointId = editor.points[k].id,
                            !.form = [date |-> editor.points[k].date,
                                      lat |-> editor.points[k].lat,
                                      lng |-> editor.points[k].lng]]
    /\ UNCHANGED <<tz, phase, viewerVars, story>>

\* handleAddOrUpdatePoint without a photo file: nothing is awaited
handleAddOrUpdatePoint ==
    /\ phase = "editor"
    /\ ~editor.isUploadingPoint
    /\ editor.form.date # EmptyString
    /\ editor.editingPointId # <<>> \/ Len(editor.points) < MaxEditorPoints
    /\ \E updated \in {AddOrUpdate(editor.points, editor.editingPointId,
                                    editor.form, editor.clock)} :
          editor' = [editor EXCEPT
                        !.points = updated,
                        !.polylines = updatePolyline(@, updated),
                        !.form = ClearedForm(editor.form),
                        !.editingPointId = <<>>]
    /\ UNCHANGED <<tz, phase, viewerVars, story>>

\* handleAddOrUpdatePoint with a photo file, up to the awaited upload
beginUpload ==
    /\ phase = "editor"
    /\ ~editor.isUploadingPoint
    /\ editor.form.date # EmptyString
    /\ editor.editingPointId # <<>> \/ Len(editor.points) < MaxEditorPoints
    /\ editor' = [editor EXCEPT
                      !.isUploadingPoint = TRUE,
                      !.upload = [active |-> TRUE, points |-> editor.points,
                                  editingPointId |-> editor.editingPointId,
                                  form |-> editor.form]]
    /\ UNCHANGED <<tz, phase, viewerVars, story>>

\* the upload settles and handleAddOrUpdatePoint runs to its end with the
\* values it captured
completeUpload ==
    /\ phase = "editor"
    /\ editor.upload.active
    /\ \E updated \in {AddOrUpdate(editor.upload.points,
                                    editor.upload.editingPointId,
                                    editor.upload.form, editor.clock)} :
          editor' = [editor EXCEPT
                      !.points = updated,
                      !.polylines = updatePolyline(@, updated),
                      !.form = ClearedForm(editor.form),
                      !.editingPointId = <<>>,
                      !.isUploadingPoint = FALSE,
                      !.upload = NoUpload]
    /\ UNCHANGED <<tz, phase, viewerVars, story>>

\* the delete button of one point of the list, confirmed
deletePoint ==
    /\ phase = "editor"
    /\ \E k \in 1..Len(editor.points) :
          LET id == editor.points[k].id
              filtered == WithoutId(editor.points, id)
          IN  \E reordered \in {Reorder(ArraySort(filtered).arr)} :
              editor' = [editor EXCEPT
                            !.points = reordered,
                            !.polylines = updatePolyline(@, reordered),
                            !.form = IF editor.editingPointId = id
                                     THEN ClearedForm(@) ELSE @,
                            !.editingPointId =
                                IF editor.editingPointId = id THEN <<>>
                                ELSE @]
    /\ UNCHANGED <<tz, phase, viewerVars, story>>

\* handleSaveTrip: the trip document is written, onFinish returns to the list
handleSaveTrip ==
    /\ phase = "editor"
    /\ Len(editor.points) >= 2
    /\ phase' = "list"
    /\ editor' = [NoEditor EXCEPT
                      !.clock = editor.clock,
                      !.stored = Reorder(ArraySort(editor.points).arr)]
    /\ UNCHANGED <<tz, viewerVars, story>>

\* ------------------------------------------------------------------------
\* specifications
\* ------------------------------------------------------------------------
\* the app showing the trip list, no viewer mounted, in a browser whose
\* local time zone is one of zones
Start(zones) ==
    /\ tz \in zones
    /\ phase = "list"
    /\ trip = <<>>
    /\ committed = FALSE
    /\ sortedPoints = <<>>
    /\ pathSegments = <<>>
    /\ fullBackgroundPath = <<>>
    /\ map = 0
    /\ transportOverlay = 0
    /\ traveledPolyline = 0
    /\ mapType = "HYBRID"
    /\ rendered = NoState
    /\ listener = <<>>
    /\ scrollTop = 0
    /\ objects = <<>>
    /\ cards = <<>>
    /\ sample = NoSample
    /\ callbacks = NoCallbacks
    /\ story = NoStory
    /\ editor = NoEditor

\* the viewer's trips carry dates in the editor's format only, whose order
\* is the same in every zone
Init == Start({540})

SortInit == Start(TimeZones)

\* the viewer on well-formed trips, scrolled at will
Next ==
    \/ Open(ViewTrips)
    \/ FirstRender
    \/ ReRender
    \/ \E d \in ScrollDeltas : Scroll(scrollTop + d)
    \/ Scroll(0)
    \/ toggleMapType
    \/ Close

Spec == Init /\ [][Next]_vars

\* the viewer opened on stored points with arbitrary date strings
SortNext ==
    \/ Open(SortTrips)
    \/ FirstRender

SortSpec == SortInit /\ [][SortNext]_vars

\* the StoryMap on stored stops, scrolled at will
StoryNext ==
    \/ OpenStory(StoryTrips)
    \/ storyFirstRender
    \/ \E d \in ScrollDeltas : storyScroll(story.scrollTop + d)
    \/ storyScroll(0)
    \/ storyBack

StorySpec == Init /\ [][StoryNext]_vars

\* the StoryMap given other stops while mounted
StoryChangeTrips ==
    {<<>>,
     <<Stop(IdPool[1], 0, 0, "FLIGHT", 0)>>,
     <<Stop(IdPool[1], 0, 0, "FLIGHT", 0), Stop(IdPool[2], 4, 8, "TRAIN", 1)>>,
     <<Stop(IdPool[3], -4, 12, "WALK", 2), Stop(IdPool[1], 0, 0, "FLIGHT", 0),
       Stop(IdPool[2], 4, 8, "TRAIN", 1)>>}

StoryChangeNext ==
    \/ OpenStory(StoryChangeTrips)
    \/ storyFirstRender
    \/ \E d \in ScrollDeltas : storyScroll(story.scrollTop + d)
    \/ storyStopsChange(StoryChangeTrips)
    \/ storyBack

StoryChangeSpec == Init /\ [][StoryChangeNext]_vars

\* the app: a trip opened in the TripViewer or in the StoryMap
AppNext ==
    \/ Open(ViewTrips)
    \/ FirstRender
    \/ ReRender
    \/ \E d \in ScrollDeltas : Scroll(scrollTop + d)
    \/ Scroll(0)
    \/ toggleMapType
    \/ Close
    \/ OpenStory(StoryTrips)
    \/ storyFirstRender
    \/ \E d \in ScrollDeltas : storyScroll(story.scrollTop + d)
    \/ storyScroll(0)
    \/ storyBack

AppSpec == Init /\ [][AppNext]_vars

\* the viewer given another trip while mounted, its timers and observers
RebuildTrips ==
    {<<>>,
     <<Point(IdPool[1], DateLocalA, 0, 0, "CAR"),
       Point(IdPool[2], DateLocalB, 4, 8, "TRAIN")>>,
     <<Point(IdPool[2], DateLocalB, 4, 8, "TRAIN"),
       Point(IdPool[4], DateLocalC, 8, 4, "PLANE"),
       Point(IdPool[1], DateLocalA, 0, 0, "CAR")>>}

\* scrolling by whole viewports
PageDeltas == {-ViewportHeight, ViewportHeight}

RebuildNext ==
    \/ Open(RebuildTrips)
    \/ FirstRender
    \/ ReRender
    \/ \E d \in PageDeltas : Scroll(scrollTop + d)
    \/ TripChange(RebuildTrips)
    \/ relayoutTimer
    \/ resizeObserved
    \/ Close

RebuildSpec == Init /\ [][RebuildNext]_vars

\* the TripEditor: trips created, saved and edited again
EditorNext ==
    \/ OpenCreate
    \/ OpenEdit
    \/ Tick
    \/ FillForm
    \/ handleEditPoint
    \/ handleAddOrUpdatePoint
    \/ beginUpload
    \/ completeUpload
    \/ deletePoint
    \/ handleSaveTrip

EditorSpec == Init /\ [][EditorNext]_vars

\* ------------------------------------------------------------------------
\* properties of the scroll-to-progress mapper
\* ------------------------------------------------------------------------
\* the overlay, polyline and waypoint the attached handler works on
Vehicle == objects[transportOverlay]

Traveled == objects[traveledPolyline]

PointPos(pt) == LatLng(RatOfInt(pt.lat), RatOfInt(pt.lng))

LexLe(i1, p1, i2, p2) == i1 < i2 \/ (i1 = i2 /\ RatLe(p1, p2))

\* C1: for a fixed segment count, a scroll event that does not decrease the
\* offset does not decrease (safeIndex, sectionProgress) lexicographically,
\* offsets past the last segment included.
C1_ScrollMonotone ==
    [][(sample.ran /\ sample'.ran /\ scrollTop <= scrollTop')
        => LexLe(sample.safeIndex, sample.sectionProgress,
                 sample'.safeIndex, sample'.sectionProgress)]_vars

\* C2: at every offset with floor(relativeOffset / sectionHeight) >=
\* segmentCount the mapper yields (segmentCount - 1, 1), the vehicle is at
\* the last waypoint and the traveled path is the full background path.
C2_SnapToEnd ==
    (sample.ran /\ sample.currentSectionIndex >= Len(pathSegments))
        => /\ sample.safeIndex = Len(pathSegments) - 1
           /\ sample.sectionProgress = <<1, 1>>
           /\ Vehicle.vehiclePos = PointPos(sortedPoints[Len(sortedPoints)])
           /\ PathPoints(Traveled.traveledPath)
                  = PathPoints(fullBackgroundPath)

\* C3: at every offset scrollTop <= leadInHeight (one viewport) the mapper
\* yields segment 0 with progress 0 and the vehicle is at the first
\* waypoint, the Bezier point of segment 0 at t = 0.
C3_SnapToStart ==
    (sample.ran /\ scrollTop <= ViewportHeight)
        => /\ sample.currentSectionIndex = 0
           /\ sample.safeIndex = 0
           /\ sample.sectionProgress = <<0, 1>>
           /\ Vehicle.vehiclePos = PointPos(sortedPoints[1])
           /\ Vehicle.vehiclePos =
                  getQuadraticBezierPoint(<<0, 1>>, pathSegments[1].start,
                                          pathSegments[1].control,
                                          pathSegments[1].end)

\* a sample taken at the very end of the lead-in, after scrolling
C3_Witness == sample.ran /\ scrollTop = ViewportHeight

\* C4: the segment index is floor(relativeOffset / sectionHeight) clamped to
\* [0, segmentCount - 1] and the progress is (relativeOffset mod
\* sectionHeight) / sectionHeight within [0, 1], relativeOffset being
\* max(0, scrollTop - leadInHeight); with lead-in and section height of one
\* viewport and 3 waypoints, offset 1.5 viewports gives (0, 1/2).
C4_MapperFormula ==
    /\ sample.ran =>
          LET rel   == Max(0, scrollTop - ViewportHeight)
              num   == rel * SCROLL_HEIGHT_MULTIPLIER[2]
              den   == ViewportHeight * SCROLL_HEIGHT_MULTIPLIER[1]
              index == Max(0, Min(num \div den, Len(pathSegments) - 1))
          IN  /\ sample.safeIndex = index
              /\ sample.sectionProgress = Rat(num % den, den)
              /\ RatLe(<<0, 1>>, sample.sectionProgress)
              /\ RatLe(sample.sectionProgress, <<1, 1>>)
    /\ LET viewport == RatOfInt(ViewportHeight)
           rel == RelativeScroll(Rat(3 * ViewportHeight, 2), viewport)
       IN  /\ SafeIndex(CurrentSectionIndex(rel, viewport), 2) = 0
           /\ SectionProgress(rel, viewport) = <<1, 2>>

\* a sample inside the second segment, strictly between its end points
C4_Witness ==
    /\ sample.ran
    /\ sample.currentSectionIndex = 1
    /\ sample.safeIndex = 1
    /\ RatLt(<<0, 1>>, sample.sectionProgress)

\* ------------------------------------------------------------------------
\* properties of the waypoint ordering
\* ------------------------------------------------------------------------
Sign(x) == IF x < 0 THEN -1 ELSE IF x > 0 THEN 1 ELSE 0

AllDated == \A k \in DOMAIN trip : trip[k].date # Undefined

StorageOrders(q) ==
    {r \in [1..Len(q) -> {q[k] : k \in DOMAIN q}] :
        \A i, j \in 1..Len(q) : i # j => r[i] # r[j]}

\* the stored points that carry a date string, in storage order
DatedSeq == SelectSeq(trip, LAMBDA p : p.date # Undefined)

\* the sign of robustSort(q[i], q[j]) at position (i - 1) * Len(q) + j, for
\* the first k pairs
RECURSIVE CompareTable(_, _)
CompareTable(q, k) ==
    IF k = 0 THEN <<>>
    ELSE Append(CompareTable(q, k - 1),
                Sign(robustSort(q[((k - 1) \div Len(q)) + 1],
                                q[((k - 1) % Len(q)) + 1])))

\* C5: over waypoints with distinct ids, whatever their date strings,
\* robustSort is a strict total order (antisymmetric, zero only for the same
\* waypoint, transitive), and sorting a sorted list changes nothing.
C5_StrictTotalOrder ==
    /\ \E n \in {Len(DatedSeq)} :
       \E cmp \in {CompareTable(DatedSeq, n * n)} :
          /\ \A i, j \in 1..n :
                /\ cmp[(i - 1) * n + j] = -cmp[(j - 1) * n + i]
                /\ (cmp[(i - 1) * n + j] = 0 => i = j)
          /\ \A i, j, k \in 1..n :
                (cmp[(i - 1) * n + j] < 0 /\ cmp[(j - 1) * n + k] < 0)
                    => cmp[(i - 1) * n + k] < 0
    /\ (committed /\ AllDated) => ArraySort(sortedPoints).arr = sortedPoints

\* C6: every storage order of the same set of waypoints sorts to the same
\* sequence, so the viewer's route does not depend on the storage order.
C6_OrderIndependent ==
    (committed /\ AllDated)
        => \A p \in StorageOrders(trip) : ArraySort(p).arr = sortedPoints

\* C7: two waypoints with the same date string come out in ascending id
\* order, whatever the order they were stored in.
C7_TieBreakById ==
    committed =>
        \A i, j \in DOMAIN sortedPoints :
            (/\ sortedPoints[i].date = sortedPoints[j].date
             /\ localeCompare(sortedPoints[i].id, sortedPoints[j].id) < 0)
                => i < j

\* C8: robustSort returns a result for every pair of waypoints, a missing or
\* unparseable date included; sorting never throws.
C8_NeverThrows == phase # "crashed"

\* ------------------------------------------------------------------------
\* properties of the path builder and the curve
\* ------------------------------------------------------------------------
\* C9: N >= 2 sorted waypoints give exactly N - 1 segments, segment i runs
\* from waypoint i to waypoint i + 1, and its control point is bent with
\* sign +1 for even i and -1 for odd i, so neighbours have opposite signs.
C9_PathBuilder ==
    (committed /\ Len(sortedPoints) >= 2)
        => /\ Len(pathSegments) = Len(sortedPoints) - 1
           /\ \A k \in 1..Len(pathSegments) :
                 LET g == pathSegments[k]
                 IN  /\ g.start = PointPos(sortedPoints[k])
                     /\ g.end = PointPos(sortedPoints[k + 1])
                     /\ g.control =
                            getControlPoint(g.start, g.end, <<1, 4>>,
                                IF (k - 1) % 2 = 0 THEN 1 ELSE -1)
                     /\ g.control #
                            getControlPoint(g.start, g.end, <<1, 4>>,
                                IF (k - 1) % 2 = 0 THEN -1 ELSE 1)

\* a route of two segments built from points stored out of order
C9_Witness ==
    /\ committed
    /\ Len(pathSegments) >= 2
    /\ trip # sortedPoints

\* C10: getQuadraticBezierPoint returns the start coordinate at t = 0 and
\* the end coordinate at t = 1 for every start, control and end, so each
\* segment's static curve begins at its start waypoint and ends at its end
\* waypoint.
C10_BezierEndPoints ==
    /\ \A k \in 1..Len(pathSegments) :
          LET g == pathSegments[k]
          IN  /\ getQuadraticBezierPoint(<<0, 1>>, g.start, g.control, g.end)
                     = g.start
              /\ getQuadraticBezierPoint(<<1, 1>>, g.start, g.control, g.end)
                     = g.end
              /\ \A pts \in {CurvePoints(g.curvePath)} :
                     /\ Len(pts) = CurveSamples + 1
                     /\ pts[1] = PointPos(sortedPoints[k])
                     /\ pts[Len(pts)] = PointPos(sortedPoints[k + 1])
    /\ \A i, j, k \in DOMAIN sortedPoints :
          LET p0 == PointPos(sortedPoints[i])
              p1 == PointPos(sortedPoints[j])
              p2 == PointPos(sortedPoints[k])
          IN  /\ getQuadraticBezierPoint(<<0, 1>>, p0, p1, p2) = p0
              /\ getQuadraticBezierPoint(<<1, 1>>, p0, p1, p2) = p2

\* a segment whose start, control and end are three different coordinates
C10_Witness ==
    /\ committed
    /\ \E k \in 1..Len(pathSegments) :
          /\ pathSegments[k].start # pathSegments[k].end
          /\ pathSegments[k].control # pathSegments[k].start
          /\ pathSegments[k].control # pathSegments[k].end

\* ------------------------------------------------------------------------
\* properties of the card transition driver
\* ------------------------------------------------------------------------
\* how finely the card animation is sampled over [0, 1]
ProgressSteps == 20

\* the three phases of a card at local progress p
CardPhases(p, card) ==
    /\ RatLt(p, <<1, 10>>) =>
          /\ card.opacity = RatMul(p, <<10, 1>>)
          /\ RatLt(<<0, 1>>, p) =>
                (RatLt(<<0, 1>>, card.opacity) /\ RatLt(card.opacity, <<1, 1>>))
    /\ (RatLe(<<1, 10>>, p) /\ RatLt(p, <<17, 20>>)) =>
          /\ card.opacity = <<1, 1>>
          /\ card.translateY = <<0, 1>>
          /\ card.scale = <<1, 1>>
    /\ RatLe(<<17, 20>>, p) =>
          /\ card.opacity =
                 RatSub(<<1, 1>>, RatMul(RatSub(p, <<17, 20>>), <<20, 3>>))
          /\ (RatLt(<<17, 20>>, p) /\ RatLt(p, <<1, 1>>)) =>
                (RatLt(<<0, 1>>, card.opacity) /\ RatLt(card.opacity, <<1, 1>>))
    /\ (card.visibility = "hidden") <=> RatLe(card.opacity, <<1, 100>>)

\* C11: a card at local progress p < 0.10 is entering with opacity p / 0.10,
\* at 0.10 <= p < 0.85 it is held with opacity 1, translateY 0 and scale 1,
\* at p >= 0.85 it is leaving with opacity 1 - (p - 0.85) / 0.15, the
\* opacity being strictly between 0 and 1 inside the two ramps; the card is
\* hidden exactly when its opacity is at most 0.01.
C11_CardPhases ==
    /\ sample.ran =>
          \A k \in 1..Len(sortedPoints) :
              CardPhases(sample.localProgress[k], cards[k])
    /\ \A j \in 0..ProgressSteps :
          CardPhases(Rat(j, ProgressSteps), CardStyle(Rat(j, ProgressSteps)))

\* a card on its way out, partly transparent
C11_Witness ==
    /\ sample.ran
    /\ \E k \in 1..Len(sortedPoints) :
          /\ RatLt(<<17, 20>>, sample.localProgress[k])
          /\ RatLt(sample.localProgress[k], <<1, 1>>)
          /\ cards[k].visibility = "visible"

\* C12 as stated: the card's local progress is 1 when the clamped segment
\* index is greater than k, the mapper's progress when it equals k, and 0
\* otherwise.
C12_CardLocalProgress ==
    sample.ran =>
        \A k \in 1..Len(sortedPoints) :
            sample.localProgress[k] =
                IF sample.safeIndex > k - 1 THEN <<1, 1>>
                ELSE IF sample.safeIndex = k - 1 THEN sample.sectionProgress
                ELSE <<0, 1>>

\* C12 amended: the card's local progress is 1 when the unclamped section
\* index floor(relativeOffset / sectionHeight) is greater than k, the
\* progress (relativeOffset mod sectionHeight) / sectionHeight when it
\* equals k, and 0 otherwise, and the card is styled from that value.
C12_CardLocalProgressUnclamped ==
    sample.ran =>
        LET rel == Max(0, scrollTop - ViewportHeight)
            num == rel * SCROLL_HEIGHT_MULTIPLIER[2]
            den == ViewportHeight * SCROLL_HEIGHT_MULTIPLIER[1]
        IN  \A k \in 1..Len(sortedPoints) :
                /\ sample.localProgress[k] =
                       IF num \div den > k - 1 THEN <<1, 1>>
                       ELSE IF num \div den = k - 1 THEN Rat(num % den, den)
                       ELSE <<0, 1>>
                /\ cards[k] = CardStyle(sample.localProgress[k])

\* scrolled past the last segment, the last waypoint's card half shown
C12_Witness ==
    /\ sample.ran
    /\ sample.currentSectionIndex = Len(sortedPoints) - 1
    /\ sample.currentSectionIndex > sample.safeIndex
    /\ RatLt(<<0, 1>>, sample.localProgress[Len(sortedPoints)])

\* ------------------------------------------------------------------------
\* degenerate routes, the transport mode, the extremes of the StoryMap
\* ------------------------------------------------------------------------
\* C13: with exactly one waypoint there is no segment and, whatever was
\* scrolled, the vehicle is at that waypoint; the StoryMap's simulated
\* speed is 0 and its heading is never set.
C13_SingleWaypoint ==
    /\ (phase = "mounted" /\ committed /\ Len(sortedPoints) = 1) =>
          /\ Len(pathSegments) = 0
          /\ ~sample.ran
          /\ Len(objects) = 1
          /\ objects[1].vehiclePos = PointPos(sortedPoints[1])
    /\ (phase = "story" /\ story.committed /\ Len(story.sortedStops) = 1) =>
          /\ story.vehiclePos = StopPos(story.sortedStops[1])
          /\ story.simulatedSpeed = 0
          /\ story.vehicleRotation = NoStory.vehicleRotation
          /\ story.sample.branch # "segment"

\* a StoryMap of one stop scrolled to the end of its container
C13_Witness ==
    /\ phase = "story"
    /\ Len(story.sortedStops) = 1
    /\ story.sample.ran
    /\ story.scrollTop = MaxStoryScrollTop(story.variant, 1)

\* C14 as stated: while segment i is traversed the icon shown is the mode
\* stored on the arrival waypoint i + 1, in the TripViewer and the StoryMap.
C14_ArrivalTransportMode ==
    /\ (phase = "mounted" /\ sample.ran /\ sample.branch = "segment") =>
          Vehicle.vehicleIcon =
              getTransportIcon(
                  sortedPoints[sample.safeIndex + 2].transportToNext)
    /\ (phase = "story" /\ story.sample.branch = "segment") =>
          story.activeTransportMode =
              story.sortedStops[story.activeStopIndex + 2].transportMode

\* C14 amended: while segment i is traversed the TripViewer shows the mode
\* stored as transportToNext on the departure waypoint i, the StoryMap the
\* mode stored as transportMode on the arrival stop i + 1.
C14_SegmentTransportMode ==
    /\ (phase = "mounted" /\ sample.ran /\ sample.branch = "segment") =>
          /\ pathSegments[sample.safeIndex + 1].data
                 = sortedPoints[sample.safeIndex + 1]
          /\ Vehicle.vehicleIcon =
                 getTransportIcon(
                     sortedPoints[sample.safeIndex + 1].transportToNext)
    /\ (phase = "story" /\ story.sample.branch = "segment") =>
          story.activeTransportMode =
              story.sortedStops[story.activeStopIndex + 2].transportMode

\* the TripViewer's vehicle on the second segment
C14_Witness ==
    /\ phase = "mounted"
    /\ sample.ran
    /\ sample.branch = "segment"
    /\ sample.safeIndex = 1
    /\ sample.currentSectionIndex = 1

\* C15: after a scroll event that leaves the view centre above the centre
\* of the first card the StoryMap's speed is 0 and the vehicle is at the
\* first stop; at or below the centre of the last card the speed is 0 and
\* the vehicle is at the last stop.
C15_StoppedAtExtremes ==
    (phase = "story" /\ story.sample.ran) =>
        LET n == Len(story.sortedStops)
            viewCenter == Rat(ViewportHeight, 2)
        IN  /\ RatLt(viewCenter,
                     CardCenter(story.variant, 0, story.scrollTop)) =>
                  /\ story.simulatedSpeed = 0
                  /\ story.vehiclePos = StopPos(story.sortedStops[1])
            /\ RatLe(CardCenter(story.variant, n - 1, story.scrollTop),
                     viewCenter) =>
                  /\ story.simulatedSpeed = 0
                  /\ story.vehiclePos = StopPos(story.sortedStops[n])

\* C18: on a trip without waypoints the ordering is empty, the TripViewer
\* builds no segments, no map and no cards and no scroll event computes a
\* sample; the StoryMap shows its no-route screen, with no listener and no
\* vehicle.
C18_EmptyRoute ==
    /\ (phase = "mounted" /\ committed /\ Len(trip) = 0) =>
          /\ sortedPoints = <<>>
          /\ pathSegments = <<>>
          /\ fullBackgroundPath = <<>>
          /\ map = 0 /\ transportOverlay = 0 /\ traveledPolyline = 0
          /\ objects = <<>>
          /\ cards = <<>>
          /\ ~sample.ran
    /\ (phase = "story" /\ story.committed /\ Len(story.stops) = 0) =>
          /\ story.sortedStops = <<>>
          /\ ~story.attached
          /\ ~story.sample.ran
          /\ story.vehiclePos = NoStory.vehiclePos
          /\ story.simulatedSpeed = 0
          /\ story.activeStopIndex = 0

\* the TripViewer on an empty trip, its container scrolled
C18_Witness ==
    /\ phase = "mounted" /\ committed
    /\ Len(trip) = 0
    /\ scrollTop > 0

C17_UniqueIds ==
    \A i, j \in 1..Len(editor.points) :
        i # j => editor.points[i].id # editor.points[j].id

\* ------------------------------------------------------------------------
\* properties of the TripViewer given another trip, and of its teardown
\* ------------------------------------------------------------------------
\* C19: every attached scroll handler reads a segment list that was built
\* from exactly the sorted waypoint list it reads, which is the waypoint list
\* of the current trip; a sample it computed has one card progress per
\* waypoint and a segment index inside the segment list.
C19_AtomicRebuild ==
    /\ \A k \in 1..Len(listener) :
          /\ Len(listener[k].pathSegments)
                 = Max(Len(listener[k].sortedPoints) - 1, 0)
          /\ listener[k].pathSegments
                 = BuildPathSegments(listener[k].sortedPoints)
          /\ listener[k].sortedPoints = sortedPoints
          /\ listener[k].sortedPoints = ArraySort(trip).arr
    /\ (phase = "mounted" /\ sample.ran) =>
          /\ Len(pathSegments) = Len(sortedPoints) - 1
          /\ Len(sample.localProgress) = Len(sortedPoints)
          /\ sample.safeIndex < Len(pathSegments)

\* a trip of two waypoints replaced by one of three in a scrolled viewer,
\* the handler having computed a sample since
C19_Witness ==
    /\ phase = "mounted"
    /\ Len(objects) = 2
    /\ Len(objects[1].markers) = 2
    /\ Len(sortedPoints) = 3
    /\ scrollTop > 0
    /\ sample.ran

\* C20: at most one scroll listener is attached at any time, and once the
\* viewer is torn down no listener is attached, no resize observer is
\* connected, no relayout timer is pending and no callback has run.
C20_Teardown ==
    /\ Len(listener) <= 1
    /\ phase = "closed" =>
          /\ listener = <<>>
          /\ callbacks.observers = <<>>
          /\ callbacks.timers = <<>>
    /\ ~callbacks.afterTeardown

\* ------------------------------------------------------------------------
\* properties of the StoryMap's state
\* ------------------------------------------------------------------------
\* the state of a StoryMap just mounted on the stops of st: the values of
\* useState and of the placement effect
storyPlaced(st) ==
    [st EXCEPT !.activeStopIndex = 0,
               !.vehiclePos = StopPos(st.sortedStops[1]),
               !.vehicleRotation = <<0, 1>>,
               !.activeTransportMode = st.sortedStops[1].transportMode,
               !.simulatedSpeed = 0]

\* C21: the active stop index, vehicle position, simulated speed and active
\* transport mode left by a scroll event are those a single scroll event at
\* the same offset leaves on a StoryMap just mounted on the same stops.
C21_DerivedState ==
    (phase = "story" /\ story.sample.ran) =>
        \E d \in {storyHandleScroll(storyPlaced(story), story.scrollTop)} :
            /\ story.activeStopIndex = d.activeStopIndex
            /\ story.vehiclePos = d.vehiclePos
            /\ story.simulatedSpeed = d.simulatedSpeed
            /\ story.activeTransportMode = d.activeTransportMode

\* ------------------------------------------------------------------------
\* properties of the traveled path
\* ------------------------------------------------------------------------
\* C22: at a sample with active segment i and progress t the traveled path
\* is the full curves of segments 0..i-1 followed by points of the curve of
\* segment i whose parameters do not exceed t.
C22_TraveledPath ==
    (phase = "mounted" /\ sample.ran /\ sample.branch = "segment") =>
        LET path == objects[traveledPolyline].traveledPath
            i    == sample.safeIndex
            t    == sample.sectionProgress
            last == path[Len(path)]
        IN  /\ Len(path) = i + 1
            /\ \A k \in 1..i : path[k] = pathSegments[k].curvePath
            /\ last.start = pathSegments[i + 1].start
            /\ last.control = pathSegments[i + 1].control
            /\ last.end = pathSegments[i + 1].end
            /\ \A j \in 0..last.segments :
                  j * t[2] <= t[1] * last.segments

\* C30: every point on the traveled path is the Bezier point of a parameter
\* t with 0 <= t <= 1; no parameter is 0/0.
C30_CurveSamplesDefined ==
    (phase = "mounted" /\ sample.ran /\ sample.branch = "segment") =>
        LET path == objects[traveledPolyline].traveledPath
        IN  \A k \in 1..Len(path) :
                \A j \in 0..path[k].segments :
                    LET t == Rat(j, path[k].segments)
                    IN  /\ ~IsNaN(t)
                        /\ RatLe(<<0, 1>>, t)
                        /\ RatLe(t, <<1, 1>>)
                        /\ ~IsNaN(CurvePoints(path[k])[j + 1].lat)
                        /\ ~IsNaN(CurvePoints(path[k])[j + 1].lng)

\* C23: the traveled polyline of every map instance only ever holds curves
\* of the trip the instance was created for, and a handler that can compute
\* a sample holds the overlay and polyline of the current map instance.
C23_NoStaleObjects ==
    /\ \A k \in 1..Len(objects) :
          \A c \in 1..Len(objects[k].traveledPath) :
              \E b \in 1..Len(objects[k].backgroundPath) :
                  /\ objects[k].traveledPath[c].start
                         = objects[k].backgroundPath[b].start
                  /\ objects[k].traveledPath[c].control
                         = objects[k].backgroundPath[b].control
                  /\ objects[k].traveledPath[c].end
                         = objects[k].backgroundPath[b].end
    /\ \A k \in 1..Len(listener) :
          (listener[k].map # 0 /\ Len(listener[k].pathSegments) > 0) =>
              /\ listener[k].transportOverlay = transportOverlay
              /\ listener[k].traveledPolyline = traveledPolyline

\* ------------------------------------------------------------------------
\* properties of the waypoint cards
\* ------------------------------------------------------------------------
\* floor(relativeOffset / sectionHeight) at offset top
SectionIndexAt(top) ==
    CurrentSectionIndex(RelativeScroll(RatOfInt(top),
                                       RatOfInt(ViewportHeight)),
                        SectionHeight(ViewportHeight))

\* a card that does not show: opacity 0, either as rendered (class
\* opacity-0) or styled hidden by the scroll handler
NotShown(card) ==
    /\ card.opacity = <<0, 1>>
    /\ card = InitialCard \/ card.visibility = "hidden"

\* C24: at every scroll offset every card other than the one whose index is
\* floor(relativeOffset / sectionHeight) has opacity 0 and does not show.
C24_OneCardVisible ==
    (phase = "mounted" /\ committed) =>
        \A k \in 1..Len(cards) :
            k - 1 # SectionIndexAt(scrollTop) => NotShown(cards[k])

\* the second card showing, the first and the third styled hidden
C24_Witness ==
    /\ phase = "mounted"
    /\ sample.ran
    /\ Len(cards) = 3
    /\ SectionIndexAt(scrollTop) = 1
    /\ cards[2].opacity = <<1, 1>>
    /\ cards[1].visibility = "hidden"
    /\ cards[3].visibility = "hidden"

\* C25: with at least one waypoint and the map ready, for every card there
\* is an offset in the scroll range at which the scroll handler leaves the
\* card with opacity 1.
C25_EveryCardReachable ==
    (/\ phase = "mounted" /\ committed /\ rendered = StateNow
     /\ map # 0 /\ scrollTop = 0 /\ Len(sortedPoints) >= 1) =>
        \A k \in 1..Len(sortedPoints) :
            \E top \in 0..MaxScrollTop(Len(sortedPoints)) :
                RunListeners(listener, top,
                             [objects |-> objects, cards |-> cards,
                              sample |-> sample]).cards[k].opacity = <<1, 1>>

\* ------------------------------------------------------------------------
\* properties of the TripEditor's point list and route line
\* ------------------------------------------------------------------------
\* C26: when an add or update that awaited its photo upload completes, every
\* point of the list was in the list just before, or is the point added; a
\* point deleted during the upload stays absent, the point added or updated
\* is present.
C26_NoLostUpdate ==
    [][(/\ phase = "editor" /\ phase' = "editor"
        /\ editor.upload.active /\ ~editor'.upload.active) =>
           /\ \A k \in 1..Len(editor'.points) :
                 \/ \E j \in 1..Len(editor.points) :
                        editor.points[j].id = editor'.points[k].id
                 \/ /\ editor.upload.editingPointId = <<>>
                    /\ editor'.points[k].id = NumberToString(editor.clock)
           /\ editor.upload.editingPointId = <<>> =>
                 \E k \in 1..Len(editor'.points) :
                     editor'.points[k].id = NumberToString(editor.clock)]_vars

\* C27: at every render of the StoryMap on a non-empty stop list the active
\* stop index is below the number of stops, the render after a change of
\* the stops included.
C27_ActiveIndexInRange ==
    (phase \in {"story", "crashed"} /\ story.committed
     /\ Len(story.sortedStops) > 0) =>
        story.activeStopIndex < Len(story.sortedStops)

\* C28: the editor's map carries exactly one route polyline, along the
\* current points in canonical order, and none with fewer than two points.
C28_RouteLineMatchesPoints ==
    phase = "editor" =>
        IF Len(editor.points) < 2 THEN editor.polylines = <<>>
        ELSE editor.polylines = <<LinePath(ArraySort(editor.points).arr)>>

\* ------------------------------------------------------------------------
\* the map type toggle
\* ------------------------------------------------------------------------
\* C29: the toggle of the map type, and the render that applies it with no
\* other state update pending, change nothing but the map's type id: the
\* map instance, the overlay and its position, the traveled path, the
\* markers, the cards, the listener and the pending callbacks stay, and no
\* map object is created.
C29_ToggleFrame ==
    [][(\/ /\ phase = "mounted" /\ phase' = "mounted"
           /\ mapType' # mapType
        \/ /\ phase = "mounted" /\ phase' = "mounted"
           /\ rendered.mapType # mapType /\ rendered' # rendered
           /\ rendered.map = map
           /\ rendered.transportOverlay = transportOverlay
           /\ rendered.traveledPolyline = traveledPolyline) =>
           /\ map' = map
           /\ transportOverlay' = transportOverlay
           /\ traveledPolyline' = traveledPolyline
           /\ listener' = listener
           /\ callbacks' = callbacks
           /\ cards' = cards
           /\ sample' = sample
           /\ scrollTop' = scrollTop
           /\ sortedPoints' = sortedPoints
           /\ pathSegments' = pathSegments
           /\ Len(objects') = Len(objects)
           /\ \A k \in 1..Len(objects) :
                 [objects'[k] EXCEPT !.mapTypeId = objects[k].mapTypeId]
                     = objects[k]
           /\ (map # 0 /\ rendered' # rendered) =>
                 objects'[map].mapTypeId = mapType]_vars

\* the map switched to the road map and rendered so, with the vehicle under
\* way on a segment
C29_Witness ==
    /\ phase = "mounted"
    /\ map # 0
    /\ mapType = "ROADMAP"
    /\ rendered.mapType = "ROADMAP"
    /\ objects[map].mapTypeId = "ROADMAP"
    /\ sample.ran
    /\ sample.branch = "segment"
    /\ RatLt(<<0, 1>>, sample.sectionProgress)

====
